---- MODULE Spec2Model ----
(***************************************************************************)
(* Tool dispatch, permission gate and remote requests of the three servers *)
(* of proxmox-claude-http:                                                 *)
(*   "stdio" : ProxmoxServer        (src/index.js, MCP SDK over stdio)     *)
(*   "http"  : ProxmoxMCPServer     (src/unnamed/part_000, JSON-RPC POST /)*)
(*   "rest"  : ProxmoxClaudeServer  (src/unnamed/part_002, REST routes)    *)
(* One action per request handler; a handler is one atomic step that ends  *)
(* with the response written and the remote requests it sent recorded.     *)
(***************************************************************************)
EXTENDS Integers, Sequences, FiniteSets, TLC

VARIABLES env, absent, listening, allowElevated, backend, server, request, response,
          apiLog, handler, raised, calls

vars ==
  <<env, absent, listening, allowElevated, backend, server, request, response, apiLog,
    handler, raised, calls>>

(***************************************************************************)
(* Bounds of the model.                                                    *)
(***************************************************************************)
\* largest number of remote endpoints that fail at the same time
MaxFail == 1

(***************************************************************************)
(* JavaScript / JSON values.                                               *)
(***************************************************************************)
\* a string-valued field that is absent (JavaScript undefined)
Undefined == "%undefined%"

\* template-literal interpolation `${v}` of a string-or-undefined value
Interp(v) == IF v = Undefined THEN "undefined" ELSE v

\* JSON values a request id can take: a tagged record, so that 0, "", null
\* and an omitted id stay different values
JsonNum(n) == [t |-> "num", n |-> n, s |-> ""]
JsonStr(s) == [t |-> "str", n |-> 0, s |-> s]
JsonNull == [t |-> "null", n |-> 0, s |-> ""]
JsonUndefined == [t |-> "undefined", n |-> 0, s |-> ""]

\* JavaScript truthiness of a JSON value
Truthy(v) ==
  CASE v.t = "num" -> v.n # 0
    [] v.t = "str" -> v.s # ""
    [] OTHER -> FALSE

\* JavaScript `a || b`
JsOr(a, b) == IF Truthy(a) THEN a ELSE b

Ids == {JsonNum(0), JsonNum(7), JsonStr(""), JsonNull, JsonUndefined}

(***************************************************************************)
(* Configuration.                                                          *)
(***************************************************************************)
Servers == {"stdio", "http", "rest"}

\* values of the environment variable PROXMOX_ALLOW_ELEVATED ("unset": absent)
EnvValues == {"true", "false", "TRUE", "unset"}

\* the comparison, were it to ignore the case of the letters
ElevatedFromEnv_anyCase(v) == v \in {"true", "TRUE"}

\* process.env.PROXMOX_ALLOW_ELEVATED === 'true'
ElevatedFromEnv(v) == v = "true"

(***************************************************************************)
(* The remote API (ResourceClient's collaborator).                         *)
(***************************************************************************)
NodeNames == {"pve", "lvm-pve"}
Kinds == {"qemu", "lxc"}

\* what can fail independently on the remote side
FailPoints ==
  {<<"nodes">>, <<"cluster">>}
    \cup {<<n, x>> : n \in NodeNames, x \in {"status", "qemu", "lxc", "storage", "agent", "exec"}}

\* network error, non-2xx status, unparseable payload
FailKinds == {"unreachable", "status", "payload"}

\* the point of failure an endpoint path depends on; <<"unknown">> for a
\* path the remote API does not serve (it answers with a non-2xx status)
FailPointOf(path) ==
  CASE path = <<"nodes">> -> <<"nodes">>
    [] path = <<"cluster", "status">> -> <<"cluster">>
    [] Len(path) = 3 /\ path[1] = "nodes" /\ path[2] \in NodeNames
         /\ path[3] \in {"status", "qemu", "lxc", "storage"} -> <<path[2], path[3]>>
    [] Len(path) = 6 /\ path[1] = "nodes" /\ path[2] \in NodeNames /\ path[3] \in Kinds
         /\ path[5] = "status" /\ path[6] = "current" -> <<path[2], path[3]>>
    [] Len(path) = 6 /\ path[1] = "nodes" /\ path[2] \in NodeNames /\ path[3] = "qemu"
         /\ path[5] = "agent" /\ path[6] = "exec" -> <<path[2], "agent">>
    [] Len(path) = 5 /\ path[1] = "nodes" /\ path[2] \in NodeNames /\ path[3] = "lxc"
         /\ path[5] = "exec" -> <<path[2], "exec">>
    [] OTHER -> <<"unknown">>

Fails(b, path) ==
  LET p == FailPointOf(path) IN p = <<"unknown">> \/ p \in b.fail

\* the kind of failure of a failing request
FailKindOf(b, path) ==
  IF FailPointOf(path) = <<"unknown">> THEN "status" ELSE b.failKind

\* one request to the remote API
Req(method, path) == [method |-> method, path |-> path]

\* an entry of a listing: a guest (vmid, type, node), a storage (name, node)
\* or a node (node)
Item(vmid, name, type, node) == [vmid |-> vmid, name |-> name, type |-> type, node |-> node]

\* the entries the remote API returns for a listing endpoint that answers
NodeItems(b) == [i \in 1..Len(b.nodes) |-> Item(0, "", "node", b.nodes[i])]

GuestItems(b, node, kind) ==
  LET ids == b.guests[<<node, kind>>]
  IN [i \in 1..Len(ids) |-> Item(ids[i], "", kind, node)]

StorageItems(b, node) ==
  LET ss == b.storages[node]
  IN [i \in 1..Len(ss) |-> Item(0, ss[i], "storage", node)]

(***************************************************************************)
(* What a handler body does: it returns a text (with the entries the text  *)
(* lists, in order) or throws a message; log is the sequence of requests   *)
(* it sent to the remote API.                                              *)
(***************************************************************************)
Return(text, items, log) == [thrown |-> FALSE, text |-> text, items |-> items, log |-> log]
Throw(msg, log) == [thrown |-> TRUE, text |-> msg, items |-> <<>>, log |-> log]

\* reading a property of undefined: `args.node` with args undefined
TypeErrorReading(prop) == <<"Cannot read properties of undefined (reading '", prop, "')">>

(***************************************************************************)
(* ProxmoxServer (src/index.js): the stdio MCP server.                     *)
(***************************************************************************)
\* the message proxmoxRequest throws for a failing request
ProxmoxServer_requestError(kind) ==
  CASE kind = "unreachable" -> <<"Failed to connect to Proxmox: ", "fetch failed">>
    [] kind = "status" -> <<"Failed to connect to Proxmox: ", "Proxmox API error: ", "status">>
    [] OTHER -> <<"Failed to parse Proxmox API response: ", "syntax error">>

ProxmoxServer_proxmoxRequest(b, req) ==
  IF Fails(b, req.path)
  THEN [ok |-> FALSE, err |-> ProxmoxServer_requestError(FailKindOf(b, req.path))]
  ELSE [ok |-> TRUE, err |-> <<>>]

\* getNodes, were the server to remember that it has answered a call and
\* list nothing from then on
ProxmoxServer_getNodes_remembers(b) ==
  LET q == Req("GET", <<"nodes">>)
      r == ProxmoxServer_proxmoxRequest(b, q)
  IN IF ~r.ok THEN Throw(r.err, <<q>>)
     ELSE Return(<<"Proxmox Cluster Nodes">>, IF server = "none" THEN NodeItems(b) ELSE <<>>,
                 <<q>>)

ProxmoxServer_getNodes(b) ==
  LET q == Req("GET", <<"nodes">>)
      r == ProxmoxServer_proxmoxRequest(b, q)
  IN IF ~r.ok THEN Throw(r.err, <<q>>)
     ELSE Return(<<"Proxmox Cluster Nodes">>, NodeItems(b), <<q>>)

NodeStatusNotice == <<"Node Status Requires Elevated Permissions", "set PROXMOX_ALLOW_ELEVATED=true">>

\* variant: the elevation flag is not consulted before the request
ProxmoxServer_getNodeStatus_ungated(allow, b, node) ==
  LET q == Req("GET", <<"nodes", Interp(node), "status">>)
      r == ProxmoxServer_proxmoxRequest(b, q)
  IN IF ~r.ok THEN Throw(r.err, <<q>>)
     ELSE Return(<<"Node ", Interp(node), " Status">>, <<>>, <<q>>)

ProxmoxServer_getNodeStatus(allow, b, node) ==
  IF ~allow THEN Return(NodeStatusNotice, <<>>, <<>>)
  ELSE LET q == Req("GET", <<"nodes", Interp(node), "status">>)
           r == ProxmoxServer_proxmoxRequest(b, q)
       IN IF ~r.ok THEN Throw(r.err, <<q>>)
          ELSE Return(<<"Node ", Interp(node), " Status">>, <<>>, <<q>>)

\* variant: the guests are output in the order fetched
SortByVmid_asFetched(s) == s

\* Array.prototype.sort with comparator a.vmid - b.vmid (a stable sort):
\* x goes behind every entry whose vmid is not larger
InsertByVmid(sorted, x) ==
  LET k == Cardinality({i \in 1..Len(sorted) : sorted[i].vmid <= x.vmid})
  IN SubSeq(sorted, 1, k) \o <<x>> \o SubSeq(sorted, k + 1, Len(sorted))

RECURSIVE SortByVmid(_)
SortByVmid(s) ==
  IF s = <<>> THEN <<>>
  ELSE InsertByVmid(SortByVmid(SubSeq(s, 1, Len(s) - 1)), s[Len(s)])

\* a default parameter value: `type = 'all'` applies when the argument is undefined
Default(v, d) == IF v = Undefined THEN d ELSE v

\* truthiness of a string-or-undefined argument: `if (nodeFilter)`
Given(v) == v # Undefined /\ v # ""

\* the for-loop of getVMs over the nodes of /nodes: no try/catch, the first
\* failing request throws out of the handler
RECURSIVE ProxmoxServer_getVMsLoop(_, _, _, _)
ProxmoxServer_getVMsLoop(b, nodes, typeFilter, acc) ==
  IF nodes = <<>> THEN acc
  ELSE LET node == Head(nodes)
           wantQ == typeFilter \in {"all", "qemu"}
           wantL == typeFilter \in {"all", "lxc"}
           qq == Req("GET", <<"nodes", node, "qemu">>)
           ql == Req("GET", <<"nodes", node, "lxc">>)
           rq == ProxmoxServer_proxmoxRequest(b, qq)
           rl == ProxmoxServer_proxmoxRequest(b, ql)
           logQ == IF wantQ THEN Append(acc.log, qq) ELSE acc.log
           itemsQ == IF wantQ THEN acc.items \o GuestItems(b, node, "qemu") ELSE acc.items
       IN IF wantQ /\ ~rq.ok THEN Throw(rq.err, logQ)
          ELSE IF wantL /\ ~rl.ok THEN Throw(rl.err, Append(logQ, ql))
          ELSE ProxmoxServer_getVMsLoop(b, Tail(nodes), typeFilter,
                 Return(<<>>,
                        IF wantL THEN itemsQ \o GuestItems(b, node, "lxc") ELSE itemsQ,
                        IF wantL THEN Append(logQ, ql) ELSE logQ))

VMsText(items) ==
  IF items = <<>> THEN <<"Virtual Machines", "No virtual machines found.">>
  ELSE <<"Virtual Machines">>

ProxmoxServer_getVMs(b, nodeFilter, typeArg) ==
  LET typeFilter == Default(typeArg, "all")
  IN IF Given(nodeFilter)
     THEN LET qq == Req("GET", <<"nodes", nodeFilter, "qemu">>)
              ql == Req("GET", <<"nodes", nodeFilter, "lxc">>)
              rq == ProxmoxServer_proxmoxRequest(b, qq)
              rl == ProxmoxServer_proxmoxRequest(b, ql)
              vms == (IF typeFilter \in {"all", "qemu"}
                      THEN GuestItems(b, nodeFilter, "qemu") ELSE <<>>)
                     \o (IF typeFilter \in {"all", "lxc"}
                         THEN GuestItems(b, nodeFilter, "lxc") ELSE <<>>)
          IN IF ~rq.ok THEN Throw(rq.err, <<qq>>)
             ELSE IF ~rl.ok THEN Throw(rl.err, <<qq, ql>>)
             ELSE Return(VMsText(vms), SortByVmid(vms), <<qq, ql>>)
     ELSE LET q == Req("GET", <<"nodes">>)
              r == ProxmoxServer_proxmoxRequest(b, q)
              c == ProxmoxServer_getVMsLoop(b, b.nodes, typeFilter, Return(<<>>, <<>>, <<q>>))
          IN IF ~r.ok THEN Throw(r.err, <<q>>)
             ELSE IF c.thrown THEN c
             ELSE Return(VMsText(c.items), SortByVmid(c.items), c.log)

ProxmoxServer_getVMStatus(b, node, vmid, typeArg) ==
  LET type == Default(typeArg, "qemu")
      q == Req("GET", <<"nodes", Interp(node), type, Interp(vmid), "status", "current">>)
      r == ProxmoxServer_proxmoxRequest(b, q)
  IN IF ~r.ok THEN Throw(r.err, <<q>>)
     ELSE Return(<<"VM Status", "ID: ", Interp(vmid), "Node: ", Interp(node), "Type: ", type>>,
                 <<>>, <<q>>)

\* variant: the notice does not echo the requested command
ExecNotice_noCommand(command) ==
  <<"VM Command Execution Requires Elevated Permissions", "set PROXMOX_ALLOW_ELEVATED=true">>

ExecNotice(command) ==
  <<"VM Command Execution Requires Elevated Permissions", "set PROXMOX_ALLOW_ELEVATED=true",
    "Requested command: ", Interp(command)>>

\* variant: the qemu branch waits for the command by asking for its status
ProxmoxServer_executeVMCommand_waits(allow, b, node, vmid, command, typeArg) ==
  LET type == Default(typeArg, "qemu")
      qa == Req("POST", <<"nodes", Interp(node), "qemu", Interp(vmid), "agent", "exec">>)
      qs == Req("GET", <<"nodes", Interp(node), "qemu", Interp(vmid), "agent", "exec-status">>)
      qe == Req("POST", <<"nodes", Interp(node), "lxc", Interp(vmid), "exec">>)
      ra == ProxmoxServer_proxmoxRequest(b, qa)
      re == ProxmoxServer_proxmoxRequest(b, qe)
      failed(r) == <<"Failed to execute command on VM ", Interp(vmid), "Error: ">> \o r.err
  IN IF ~allow THEN Return(ExecNotice(command), <<>>, <<>>)
     ELSE IF type = "qemu"
     THEN IF ~ra.ok THEN Return(failed(ra), <<>>, <<qa>>)
          ELSE Return(<<"Command executed on VM ", Interp(vmid), "Command: ", Interp(command),
                        "Output: ">>, <<>>, <<qa, qs>>)
     ELSE IF ~re.ok THEN Return(failed(re), <<>>, <<qe>>)
          ELSE Return(<<"Command executed on LXC ", Interp(vmid), "Command: ", Interp(command),
                        "Output: ">>, <<>>, <<qe>>)

\* variant: only type 'lxc' takes the lxc endpoint, every other value is
\* treated as a qemu guest
ProxmoxServer_executeVMCommand_lxcOnly(allow, b, node, vmid, command, typeArg) ==
  LET type == Default(typeArg, "qemu")
      qa == Req("POST", <<"nodes", Interp(node), "qemu", Interp(vmid), "agent", "exec">>)
      qe == Req("POST", <<"nodes", Interp(node), "lxc", Interp(vmid), "exec">>)
      ra == ProxmoxServer_proxmoxRequest(b, qa)
      re == ProxmoxServer_proxmoxRequest(b, qe)
      failed(r) == <<"Failed to execute command on VM ", Interp(vmid), "Error: ">> \o r.err
  IN IF ~allow THEN Return(ExecNotice(command), <<>>, <<>>)
     ELSE IF type # "lxc"
     THEN IF ~ra.ok THEN Return(failed(ra), <<>>, <<qa>>)
          ELSE Return(<<"Command executed on VM ", Interp(vmid), "Command: ", Interp(command),
                        "Command submitted to guest agent", "PID: ">>, <<>>, <<qa>>)
     ELSE IF ~re.ok THEN Return(failed(re), <<>>, <<qe>>)
          ELSE Return(<<"Command executed on LXC ", Interp(vmid), "Command: ", Interp(command),
                        "Output: ">>, <<>>, <<qe>>)

ProxmoxServer_executeVMCommand(allow, b, node, vmid, command, typeArg) ==
  LET type == Default(typeArg, "qemu")
      qa == Req("POST", <<"nodes", Interp(node), "qemu", Interp(vmid), "agent", "exec">>)
      qe == Req("POST", <<"nodes", Interp(node), "lxc", Interp(vmid), "exec">>)
      ra == ProxmoxServer_proxmoxRequest(b, qa)
      re == ProxmoxServer_proxmoxRequest(b, qe)
      failed(r) == <<"Failed to execute command on VM ", Interp(vmid), "Error: ">> \o r.err
  IN IF ~allow THEN Return(ExecNotice(command), <<>>, <<>>)
     ELSE IF type = "qemu"
     THEN IF ~ra.ok THEN Return(failed(ra), <<>>, <<qa>>)
          ELSE Return(<<"Command executed on VM ", Interp(vmid), "Command: ", Interp(command),
                        "Command submitted to guest agent", "PID: ">>, <<>>, <<qa>>)
     ELSE IF ~re.ok THEN Return(failed(re), <<>>, <<qe>>)
          ELSE Return(<<"Command executed on LXC ", Interp(vmid), "Command: ", Interp(command),
                        "Output: ">>, <<>>, <<qe>>)

\* a name as the pieces between and including its '-' characters, so that
\* joining names with '-' is string concatenation and not pairing
Tokens(name) ==
  CASE name = "local-lvm" -> <<"local", "-", "lvm">>
    [] name = "lvm-pve" -> <<"lvm", "-", "pve">>
    [] OTHER -> <<name>>

\* `${storage.storage}-${storage.node}`
StorageKey(item) == Tokens(item.name) \o <<"-">> \o Tokens(item.node)

\* position of a name in String.prototype.localeCompare order
NameRank(name) ==
  CASE name = "local" -> 1
    [] name = "local-lvm" -> 2
    [] name = "lvm-pve" -> 3
    [] name = "pve" -> 4
    [] OTHER -> 0

\* the loop over storages that keeps the first entry of each key
RECURSIVE UniqueStorages(_, _, _)
UniqueStorages(items, seen, acc) ==
  IF items = <<>> THEN acc
  ELSE LET key == StorageKey(Head(items))
       IN IF key \in seen THEN UniqueStorages(Tail(items), seen, acc)
          ELSE UniqueStorages(Tail(items), seen \cup {key}, Append(acc, Head(items)))

InsertByStorage(sorted, x) ==
  LET k == Cardinality({i \in 1..Len(sorted) : NameRank(sorted[i].name) <= NameRank(x.name)})
  IN SubSeq(sorted, 1, k) \o <<x>> \o SubSeq(sorted, k + 1, Len(sorted))

RECURSIVE SortByStorage(_)
SortByStorage(s) ==
  IF s = <<>> THEN <<>>
  ELSE InsertByStorage(SortByStorage(SubSeq(s, 1, Len(s) - 1)), s[Len(s)])

InsertByNode(sorted, x) ==
  LET k == Cardinality({i \in 1..Len(sorted) : NameRank(sorted[i].node) <= NameRank(x.node)})
  IN SubSeq(sorted, 1, k) \o <<x>> \o SubSeq(sorted, k + 1, Len(sorted))

RECURSIVE SortByNode(_)
SortByNode(s) ==
  IF s = <<>> THEN <<>>
  ELSE InsertByNode(SortByNode(SubSeq(s, 1, Len(s) - 1)), s[Len(s)])

\* the for-loop of getStorage over the nodes of /nodes: no try/catch
RECURSIVE ProxmoxServer_getStorageLoop(_, _, _)
ProxmoxServer_getStorageLoop(b, nodes, acc) ==
  IF nodes = <<>> THEN acc
  ELSE LET node == Head(nodes)
           q == Req("GET", <<"nodes", node, "storage">>)
           r == ProxmoxServer_proxmoxRequest(b, q)
       IN IF ~r.ok THEN Throw(r.err, Append(acc.log, q))
          ELSE ProxmoxServer_getStorageLoop(b, Tail(nodes),
                 Return(<<>>, acc.items \o StorageItems(b, node), Append(acc.log, q)))

StorageText(items) ==
  IF items = <<>> THEN <<"Storage Pools", "No storage found.">> ELSE <<"Storage Pools">>

ProxmoxServer_getStorage(b, nodeFilter) ==
  IF Given(nodeFilter)
  THEN LET q == Req("GET", <<"nodes", nodeFilter, "storage">>)
           r == ProxmoxServer_proxmoxRequest(b, q)
           storages == StorageItems(b, nodeFilter)
       IN IF ~r.ok THEN Throw(r.err, <<q>>)
          ELSE Return(StorageText(storages),
                      SortByStorage(UniqueStorages(storages, {}, <<>>)), <<q>>)
  ELSE LET q == Req("GET", <<"nodes">>)
           r == ProxmoxServer_proxmoxRequest(b, q)
           c == ProxmoxServer_getStorageLoop(b, b.nodes, Return(<<>>, <<>>, <<q>>))
       IN IF ~r.ok THEN Throw(r.err, <<q>>)
          ELSE IF c.thrown THEN c
          ELSE Return(StorageText(c.items),
                      SortByStorage(UniqueStorages(c.items, {}, <<>>)), c.log)

\* the first lines of a cluster-status text: Healthy when every node is
\* online, otherwise the word the server uses
ClusterHealth(b, otherwise) ==
  <<"Proxmox Cluster Status", "Cluster Health: ",
    IF \A i \in 1..Len(b.nodes) : b.nodes[i] \in b.online THEN "Healthy" ELSE otherwise>>

ProxmoxServer_getClusterStatus(allow, b) ==
  LET q == Req("GET", <<"nodes">>)
      r == ProxmoxServer_proxmoxRequest(b, q)
      qc == Req("GET", <<"cluster", "status">>)
      log == IF allow THEN <<q, qc>> ELSE <<q>>
  IN IF ~r.ok
     THEN Return(<<"Failed to get cluster status", "Error: ">> \o r.err, <<>>, <<q>>)
     ELSE Return(ClusterHealth(b, "Warning")
                   \o (IF allow THEN <<"Resource Usage", "CPU: ", "Memory: ">>
                       ELSE <<"Limited Information", "Resource usage requires elevated permissions">>)
                   \o <<"Node Details">>,
                 SortByNode(NodeItems(b)), log)

(***************************************************************************)
(* Requests and response envelopes.                                        *)
(***************************************************************************)
\* params.arguments of a tools/call; present = FALSE when it is omitted
Args(node, vmid, command, type) ==
  [present |-> TRUE, node |-> node, vmid |-> vmid, command |-> command, type |-> type]
NoArgs ==
  [present |-> FALSE, node |-> Undefined, vmid |-> Undefined, command |-> Undefined,
   type |-> Undefined]

\* `args?.node`
Opt(args, field) == IF args.present THEN args[field] ELSE Undefined

Params(name, args) == [present |-> TRUE, name |-> name, arguments |-> args]
NoParams == [present |-> FALSE, name |-> Undefined, arguments |-> NoArgs]

NoResult == [present |-> FALSE, kind |-> "", tools |-> <<>>, text |-> <<>>, items |-> <<>>]
NoError == [present |-> FALSE, code |-> 0, message |-> "", data |-> <<>>]

\* { content: [{ type: 'text', text }] }
ContentResult(c) ==
  [present |-> TRUE, kind |-> "content", tools |-> <<>>, text |-> c.text, items |-> c.items]
ToolsResult(tools) ==
  [present |-> TRUE, kind |-> "tools", tools |-> tools, text |-> <<>>, items |-> <<>>]
ErrorObject(code, message, data) ==
  [present |-> TRUE, code |-> code, message |-> message, data |-> data]

\* a response: the HTTP status (0 on stdio), the echoed id and the result and
\* error fields of the body; log, handler and raised are what producing it did:
\* the remote requests sent, the tool handler entered, whether that handler threw
Outcome(status, id, result, error, log, h) ==
  [status |-> status, id |-> id, result |-> result, error |-> error, log |-> log,
   handler |-> h, raised |-> FALSE]

\* the outcome of a switch whose entered handler threw
Caught(s, out) == [out EXCEPT !.raised = s.c.thrown /\ s.h # "none"]

\* a tool descriptor: its name and the fields its inputSchema requires
Tool(name, required) == [name |-> name, required |-> required]

ToolNames(tools) == {tools[i].name : i \in 1..Len(tools)}

(***************************************************************************)
(* ProxmoxServer.setupToolHandlers (src/index.js).                         *)
(***************************************************************************)
\* variant: the gated tools are left out of the list
ProxmoxServer_listTools_withoutGated ==
  << Tool("proxmox_get_nodes", {}),
     Tool("proxmox_get_vms", {}),
     Tool("proxmox_get_vm_status", {"node", "vmid"}),
     Tool("proxmox_get_storage", {}),
     Tool("proxmox_get_cluster_status", {}) >>

ProxmoxServer_listTools ==
  << Tool("proxmox_get_nodes", {}),
     Tool("proxmox_get_node_status", {"node"}),
     Tool("proxmox_get_vms", {}),
     Tool("proxmox_get_vm_status", {"node", "vmid"}),
     Tool("proxmox_execute_vm_command", {"node", "vmid", "command"}),
     Tool("proxmox_get_storage", {}),
     Tool("proxmox_get_cluster_status", {}) >>

\* the switch of the CallToolRequestSchema handler: the handler entered and
\* what it returns or throws; reading args.node of an omitted arguments
\* object throws before the handler is entered
ProxmoxServer_switch(allow, b, name, args) ==
  LET noArgs == [h |-> "none", c |-> Throw(TypeErrorReading("node"), <<>>)]
  IN CASE name = "proxmox_get_nodes" ->
            [h |-> "getNodes", c |-> ProxmoxServer_getNodes(b)]
       [] name = "proxmox_get_node_status" ->
            IF ~args.present THEN noArgs
            ELSE [h |-> "getNodeStatus", c |-> ProxmoxServer_getNodeStatus(allow, b, args.node)]
       [] name = "proxmox_get_vms" ->
            IF ~args.present THEN noArgs
            ELSE [h |-> "getVMs", c |-> ProxmoxServer_getVMs(b, args.node, args.type)]
       [] name = "proxmox_get_vm_status" ->
            IF ~args.present THEN noArgs
            ELSE [h |-> "getVMStatus",
                  c |-> ProxmoxServer_getVMStatus(b, args.node, args.vmid, args.type)]
       [] name = "proxmox_execute_vm_command" ->
            IF ~args.present THEN noArgs
            ELSE [h |-> "executeVMCommand",
                  c |-> ProxmoxServer_executeVMCommand(allow, b, args.node, args.vmid,
                                                       args.command, args.type)]
       [] name = "proxmox_get_storage" ->
            IF ~args.present THEN noArgs
            ELSE [h |-> "getStorage", c |-> ProxmoxServer_getStorage(b, args.node)]
       [] name = "proxmox_get_cluster_status" ->
            [h |-> "getClusterStatus", c |-> ProxmoxServer_getClusterStatus(allow, b)]
       [] OTHER ->
            [h |-> "none", c |-> Throw(<<"Unknown tool: ", Interp(name)>>, <<>>)]

\* variant: no catch around the switch, so a thrown error reaches the SDK,
\* which answers with an error response
ProxmoxServer_callTool_rethrow(allow, b, name, args) ==
  LET s == ProxmoxServer_switch(allow, b, name, args)
  IN IF s.c.thrown
     THEN Caught(s, Outcome(0, JsonUndefined, NoResult,
                            ErrorObject(-32603, "", s.c.text), s.c.log, s.h))
     ELSE Outcome(0, JsonUndefined, ContentResult(s.c), NoError, s.c.log, s.h)

\* variant: the VM status is refused while elevation is off
ProxmoxServer_callTool_gatesVMStatus(allow, b, name, args) ==
  LET s == ProxmoxServer_switch(allow, b, name, args)
      c == IF s.c.thrown THEN Return(<<"Error: ">> \o s.c.text, <<>>, s.c.log) ELSE s.c
  IN IF ~allow /\ name = "proxmox_get_vm_status" /\ args.present
     THEN Outcome(0, JsonUndefined, ContentResult(Return(NodeStatusNotice, <<>>, <<>>)),
                  NoError, <<>>, s.h)
     ELSE Caught(s, Outcome(0, JsonUndefined, ContentResult(c), NoError, c.log, s.h))

\* the CallToolRequestSchema handler: try { switch } catch { Error: message };
\* the SDK sends what the handler returns as the result of the response
ProxmoxServer_callTool(allow, b, name, args) ==
  LET s == ProxmoxServer_switch(allow, b, name, args)
      c == IF s.c.thrown THEN Return(<<"Error: ">> \o s.c.text, <<>>, s.c.log) ELSE s.c
  IN Caught(s, Outcome(0, JsonUndefined, ContentResult(c), NoError, c.log, s.h))

(***************************************************************************)
(* ProxmoxMCPServer (src/unnamed/part_000): JSON-RPC over HTTP POST /.     *)
(***************************************************************************)
MethodNotFound == -32601
InternalError == -32603

ProxmoxMCPServer_requestError(kind) ==
  CASE kind = "unreachable" -> <<"fetch failed">>
    [] kind = "status" -> <<"Proxmox API error: ", "status">>
    [] OTHER -> <<"invalid json response body">>

ProxmoxMCPServer_proxmoxRequest(b, req) ==
  IF Fails(b, req.path)
  THEN [ok |-> FALSE, err |-> ProxmoxMCPServer_requestError(FailKindOf(b, req.path))]
  ELSE [ok |-> TRUE, err |-> <<>>]

ProxmoxMCPServer_getNodes(b) ==
  LET q == Req("GET", <<"nodes">>)
      r == ProxmoxMCPServer_proxmoxRequest(b, q)
  IN IF ~r.ok THEN Throw(r.err, <<q>>)
     ELSE Return(<<"Proxmox Cluster Nodes">>, NodeItems(b), <<q>>)

\* variant: the loop ends at the first node whose fetch fails
RECURSIVE ProxmoxMCPServer_getVMsLoop_stopsAtFailure(_, _, _, _, _)
ProxmoxMCPServer_getVMsLoop_stopsAtFailure(b, nodes, nodeFilter, typeFilter, acc) ==
  IF nodes = <<>> THEN acc
  ELSE LET node == Head(nodes)
           wantQ == typeFilter \in {"all", "qemu"}
           wantL == typeFilter \in {"all", "lxc"}
           qq == Req("GET", <<"nodes", node, "qemu">>)
           ql == Req("GET", <<"nodes", node, "lxc">>)
           logQ == IF wantQ THEN Append(acc.log, qq) ELSE acc.log
           itemsQ == IF wantQ THEN acc.items \o GuestItems(b, node, "qemu") ELSE acc.items
       IN IF Given(nodeFilter) /\ node # nodeFilter
          THEN ProxmoxMCPServer_getVMsLoop_stopsAtFailure(b, Tail(nodes), nodeFilter,
                                                          typeFilter, acc)
          ELSE IF wantQ /\ Fails(b, qq.path) THEN Return(<<>>, acc.items, logQ)
          ELSE IF wantL /\ Fails(b, ql.path) THEN Return(<<>>, itemsQ, Append(logQ, ql))
          ELSE ProxmoxMCPServer_getVMsLoop_stopsAtFailure(b, Tail(nodes), nodeFilter, typeFilter,
                 Return(<<>>,
                        IF wantL THEN itemsQ \o GuestItems(b, node, "lxc") ELSE itemsQ,
                        IF wantL THEN Append(logQ, ql) ELSE logQ))

\* the for-loop of getVMs: one try/catch around both fetches of a node, so a
\* failing qemu fetch also skips the lxc fetch of that node
RECURSIVE ProxmoxMCPServer_getVMsLoop(_, _, _, _, _)
ProxmoxMCPServer_getVMsLoop(b, nodes, nodeFilter, typeFilter, acc) ==
  IF nodes = <<>> THEN acc
  ELSE LET node == Head(nodes)
           wantQ == typeFilter \in {"all", "qemu"}
           wantL == typeFilter \in {"all", "lxc"}
           qq == Req("GET", <<"nodes", node, "qemu">>)
           ql == Req("GET", <<"nodes", node, "lxc">>)
           rq == ProxmoxMCPServer_proxmoxRequest(b, qq)
           rl == ProxmoxMCPServer_proxmoxRequest(b, ql)
           logQ == IF wantQ THEN Append(acc.log, qq) ELSE acc.log
           itemsQ == IF wantQ THEN acc.items \o GuestItems(b, node, "qemu") ELSE acc.items
           next ==
             IF Given(nodeFilter) /\ node # nodeFilter THEN acc
             ELSE IF wantQ /\ ~rq.ok THEN Return(<<>>, acc.items, logQ)
             ELSE IF wantL /\ ~rl.ok THEN Return(<<>>, itemsQ, Append(logQ, ql))
             ELSE Return(<<>>,
                         IF wantL THEN itemsQ \o GuestItems(b, node, "lxc") ELSE itemsQ,
                         IF wantL THEN Append(logQ, ql) ELSE logQ)
       IN ProxmoxMCPServer_getVMsLoop(b, Tail(nodes), nodeFilter, typeFilter, next)

\* variant: the merged list keeps one entry per vmid
RECURSIVE FirstPerVmid(_, _)
FirstPerVmid(items, acc) ==
  IF items = <<>> THEN acc
  ELSE FirstPerVmid(Tail(items),
                    IF \E i \in 1..Len(acc) : acc[i].vmid = Head(items).vmid THEN acc
                    ELSE Append(acc, Head(items)))

ProxmoxMCPServer_getVMs_byVmid(b, nodeArg, typeArg) ==
  LET typeFilter == Default(typeArg, "all")
      q == Req("GET", <<"nodes">>)
      c == ProxmoxMCPServer_getVMsLoop(b, b.nodes, nodeArg, typeFilter,
                                       Return(<<>>, <<>>, <<q>>))
  IN IF Fails(b, q.path) THEN Throw(ProxmoxMCPServer_requestError(FailKindOf(b, q.path)), <<q>>)
     ELSE Return(<<"Virtual Machines">>, FirstPerVmid(SortByVmid(c.items), <<>>), c.log)

ProxmoxMCPServer_getVMs(b, nodeArg, typeArg) ==
  LET typeFilter == Default(typeArg, "all")
      q == Req("GET", <<"nodes">>)
      r == ProxmoxMCPServer_proxmoxRequest(b, q)
      c == ProxmoxMCPServer_getVMsLoop(b, b.nodes, nodeArg, typeFilter,
                                       Return(<<>>, <<>>, <<q>>))
  IN IF ~r.ok THEN Throw(r.err, <<q>>)
     ELSE Return(<<"Virtual Machines">>, SortByVmid(c.items), c.log)

ProxmoxMCPServer_getClusterStatus(b) ==
  LET q == Req("GET", <<"nodes">>)
      r == ProxmoxMCPServer_proxmoxRequest(b, q)
      qc == Req("GET", <<"cluster", "status">>)
      rc == ProxmoxMCPServer_proxmoxRequest(b, qc)
  IN IF ~r.ok THEN Throw(r.err, <<q>>)
     ELSE IF ~rc.ok THEN Throw(rc.err, <<q, qc>>)
     ELSE Return(ClusterHealth(b, "Degraded") \o <<"Resource Usage", "CPU: ", "Memory: ", "Node Details">>,
                 NodeItems(b), <<q, qc>>)

ProxmoxMCPServer_handleInitialize(req) ==
  Outcome(200, req.id,
          [present |-> TRUE, kind |-> "initialize", tools |-> <<>>,
           text |-> <<"2024-11-05", "proxmox-mcp-server">>, items |-> <<>>],
          NoError, <<>>, "none")

\* variant: a tool is listed that the switch of handleToolCall does not handle
ProxmoxMCPServer_tools_withStorage ==
  << Tool("proxmox_get_nodes", {}),
     Tool("proxmox_get_vms", {}),
     Tool("proxmox_get_storage", {}),
     Tool("proxmox_get_cluster_status", {}) >>

ProxmoxMCPServer_tools ==
  << Tool("proxmox_get_nodes", {}),
     Tool("proxmox_get_vms", {}),
     Tool("proxmox_get_cluster_status", {}) >>

ProxmoxMCPServer_handleToolsList(req) ==
  Outcome(200, req.id, ToolsResult(ProxmoxMCPServer_tools), NoError, <<>>, "none")

\* variant: the default case returns the message instead of throwing it
ProxmoxMCPServer_switch_defaultReturns(b, name, args) ==
  CASE name = "proxmox_get_nodes" ->
         [h |-> "getNodes", c |-> ProxmoxMCPServer_getNodes(b)]
    [] name = "proxmox_get_vms" ->
         [h |-> "getVMs", c |-> ProxmoxMCPServer_getVMs(b, Opt(args, "node"), Opt(args, "type"))]
    [] name = "proxmox_get_cluster_status" ->
         [h |-> "getClusterStatus", c |-> ProxmoxMCPServer_getClusterStatus(b)]
    [] OTHER ->
         [h |-> "none", c |-> Return(<<"Unknown tool: ", Interp(name)>>, <<>>, <<>>)]

\* the switch of handleToolCall
ProxmoxMCPServer_switch(b, name, args) ==
  CASE name = "proxmox_get_nodes" ->
         [h |-> "getNodes", c |-> ProxmoxMCPServer_getNodes(b)]
    [] name = "proxmox_get_vms" ->
         [h |-> "getVMs", c |-> ProxmoxMCPServer_getVMs(b, Opt(args, "node"), Opt(args, "type"))]
    [] name = "proxmox_get_cluster_status" ->
         [h |-> "getClusterStatus", c |-> ProxmoxMCPServer_getClusterStatus(b)]
    [] OTHER ->
         [h |-> "none", c |-> Throw(<<"Unknown tool: ", Interp(name)>>, <<>>)]

\* what an async function call ends with: a value, or a rejection that the
\* caller's try/catch receives
Resolved(out) == [rejected |-> FALSE, msg |-> <<>>, out |-> out]
Rejected(msg) ==
  [rejected |-> TRUE, msg |-> msg,
   out |-> Outcome(0, JsonUndefined, NoResult, NoError, <<>>, "none")]

\* variant: the catch answers with the error and with a result carrying it
ProxmoxMCPServer_handleToolCall_both(b, req) ==
  IF ~req.params.present
  THEN Rejected(<<"Cannot destructure property 'name' of 'request.params' as it is undefined.">>)
  ELSE LET s == ProxmoxMCPServer_switch(b, req.params.name, req.params.arguments)
       IN IF s.c.thrown
          THEN Resolved(Caught(s, Outcome(200, req.id, ContentResult(s.c),
                                          ErrorObject(InternalError, "Tool execution failed",
                                                      s.c.text),
                                          s.c.log, s.h)))
          ELSE Resolved(Outcome(200, req.id, ContentResult(s.c), NoError, s.c.log, s.h))

\* handleToolCall: the destructuring of request.params is outside the try;
\* then try { switch; result } catch { error }
ProxmoxMCPServer_handleToolCall(b, req) ==
  IF ~req.params.present
  THEN Rejected(<<"Cannot destructure property 'name' of 'request.params' as it is undefined.">>)
  ELSE LET s == ProxmoxMCPServer_switch(b, req.params.name, req.params.arguments)
       IN IF s.c.thrown
          THEN Resolved(Caught(s, Outcome(200, req.id, NoResult,
                                          ErrorObject(InternalError, "Tool execution failed",
                                                      s.c.text),
                                          s.c.log, s.h)))
          ELSE Resolved(Outcome(200, req.id, ContentResult(s.c), NoError, s.c.log, s.h))

\* variant: an unknown method is answered with the internal-error code
ProxmoxMCPServer_handleMCPRequest_internalError(b, req) ==
  CASE req.method = "initialize" -> Resolved(ProxmoxMCPServer_handleInitialize(req))
    [] req.method = "tools/list" -> Resolved(ProxmoxMCPServer_handleToolsList(req))
    [] req.method = "tools/call" -> ProxmoxMCPServer_handleToolCall(b, req)
    [] OTHER ->
         Resolved(Outcome(200, req.id, NoResult,
                          ErrorObject(InternalError, "Method not found",
                                      <<"Unknown method: ", Interp(req.method)>>),
                          <<>>, "none"))

ProxmoxMCPServer_handleMCPRequest(b, req) ==
  CASE req.method = "initialize" -> Resolved(ProxmoxMCPServer_handleInitialize(req))
    [] req.method = "tools/list" -> Resolved(ProxmoxMCPServer_handleToolsList(req))
    [] req.method = "tools/call" -> ProxmoxMCPServer_handleToolCall(b, req)
    [] OTHER ->
         Resolved(Outcome(200, req.id, NoResult,
                          ErrorObject(MethodNotFound, "Method not found",
                                      <<"Unknown method: ", Interp(req.method)>>),
                          <<>>, "none"))

\* the POST / handler: try { res.json(await handleMCPRequest(req.body)) }
\* catch { status 500, Internal error, id: req.body?.id || null }
ProxmoxMCPServer_post(b, req) ==
  LET p == ProxmoxMCPServer_handleMCPRequest(b, req)
  IN IF p.rejected
     THEN Outcome(500, JsOr(req.id, JsonNull), NoResult,
                  ErrorObject(InternalError, "Internal error", p.msg), <<>>, "none")
     ELSE p.out

(***************************************************************************)
(* ProxmoxClaudeServer (src/unnamed/part_002): the REST server.            *)
(***************************************************************************)
ProxmoxClaudeServer_requestError(kind) ==
  CASE kind = "unreachable" -> <<"fetch failed">>
    [] kind = "status" -> <<"Proxmox API error: ", "status">>
    [] OTHER -> <<"invalid json response body">>

ProxmoxClaudeServer_proxmoxRequest(b, req) ==
  IF Fails(b, req.path)
  THEN [ok |-> FALSE, err |-> ProxmoxClaudeServer_requestError(FailKindOf(b, req.path))]
  ELSE [ok |-> TRUE, err |-> <<>>]

ProxmoxClaudeServer_getNodes(b) ==
  LET q == Req("GET", <<"nodes">>)
      r == ProxmoxClaudeServer_proxmoxRequest(b, q)
  IN IF ~r.ok THEN Throw(r.err, <<q>>)
     ELSE Return(<<"Proxmox Cluster Nodes">>, NodeItems(b), <<q>>)

ProxmoxClaudeServer_getNodeStatus(b, nodeName) ==
  LET q == Req("GET", <<"nodes", Interp(nodeName), "status">>)
      r == ProxmoxClaudeServer_proxmoxRequest(b, q)
  IN IF ~r.ok THEN Throw(r.err, <<q>>)
     ELSE Return(<<"Node: ", Interp(nodeName)>>, <<>>, <<q>>)

ProxmoxClaudeServer_executeVMCommand(allow, b, node, vmid, command, typeArg) ==
  LET type == Default(typeArg, "qemu")
      qa == Req("POST", <<"nodes", Interp(node), "qemu", Interp(vmid), "agent", "exec">>)
      qe == Req("POST", <<"nodes", Interp(node), "lxc", Interp(vmid), "exec">>)
      ra == ProxmoxClaudeServer_proxmoxRequest(b, qa)
      re == ProxmoxClaudeServer_proxmoxRequest(b, qe)
      failed(r) == <<"Command execution failed", "Error: ">> \o r.err
  IN IF ~allow THEN Return(ExecNotice(command), <<>>, <<>>)
     ELSE IF type = "qemu"
     THEN IF ~ra.ok THEN Return(failed(ra), <<>>, <<qa>>)
          ELSE Return(<<"Command executed on VM ", Interp(vmid), "Command: ", Interp(command),
                        "Command submitted to guest agent", "PID: ">>, <<>>, <<qa>>)
     ELSE IF ~re.ok THEN Return(failed(re), <<>>, <<qe>>)
          ELSE Return(<<"Command executed on container ", Interp(vmid), "Command: ",
                        Interp(command), "Output: ">>, <<>>, <<qe>>)

\* the for-loop of getVMs over the nodes of /nodes: each fetch has its own
\* try/catch, a failing fetch is skipped
RECURSIVE ProxmoxClaudeServer_getVMsLoop(_, _, _, _)
ProxmoxClaudeServer_getVMsLoop(b, nodes, type, acc) ==
  IF nodes = <<>> THEN acc
  ELSE LET node == Head(nodes)
           wantQ == type \in {"all", "qemu"}
           wantL == type \in {"all", "lxc"}
           qq == Req("GET", <<"nodes", node, "qemu">>)
           ql == Req("GET", <<"nodes", node, "lxc">>)
           rq == ProxmoxClaudeServer_proxmoxRequest(b, qq)
           rl == ProxmoxClaudeServer_proxmoxRequest(b, ql)
           logQ == IF wantQ THEN Append(acc.log, qq) ELSE acc.log
           itemsQ == IF wantQ /\ rq.ok THEN acc.items \o GuestItems(b, node, "qemu")
                     ELSE acc.items
       IN ProxmoxClaudeServer_getVMsLoop(b, Tail(nodes), type,
            Return(<<>>,
                   IF wantL /\ rl.ok THEN itemsQ \o GuestItems(b, node, "lxc") ELSE itemsQ,
                   IF wantL THEN Append(logQ, ql) ELSE logQ))

ProxmoxClaudeServer_getVMs(b, nodeName, typeArg) ==
  LET type == Default(typeArg, "all")
      wantQ == type \in {"all", "qemu"}
      wantL == type \in {"all", "lxc"}
  IN IF Given(nodeName)
     THEN LET qq == Req("GET", <<"nodes", nodeName, "qemu">>)
              ql == Req("GET", <<"nodes", nodeName, "lxc">>)
              rq == ProxmoxClaudeServer_proxmoxRequest(b, qq)
              rl == ProxmoxClaudeServer_proxmoxRequest(b, ql)
              logQ == IF wantQ THEN <<qq>> ELSE <<>>
              logL == IF wantL THEN Append(logQ, ql) ELSE logQ
          IN IF wantQ /\ ~rq.ok THEN Throw(rq.err, logQ)
             ELSE IF wantL /\ ~rl.ok THEN Throw(rl.err, logL)
             ELSE Return(<<"Virtual Machines">>,
                         SortByVmid((IF wantQ THEN GuestItems(b, nodeName, "qemu") ELSE <<>>)
                                    \o (IF wantL THEN GuestItems(b, nodeName, "lxc") ELSE <<>>)),
                         logL)
     ELSE LET q == Req("GET", <<"nodes">>)
              r == ProxmoxClaudeServer_proxmoxRequest(b, q)
              c == ProxmoxClaudeServer_getVMsLoop(b, b.nodes, type, Return(<<>>, <<>>, <<q>>))
          IN IF ~r.ok THEN Throw(r.err, <<q>>)
             ELSE Return(<<"Virtual Machines">>, SortByVmid(c.items), c.log)

\* the for-loop of getStorage over the nodes of /nodes: try/catch per node
RECURSIVE ProxmoxClaudeServer_getStorageLoop(_, _, _)
ProxmoxClaudeServer_getStorageLoop(b, nodes, acc) ==
  IF nodes = <<>> THEN acc
  ELSE LET node == Head(nodes)
           q == Req("GET", <<"nodes", node, "storage">>)
           r == ProxmoxClaudeServer_proxmoxRequest(b, q)
       IN ProxmoxClaudeServer_getStorageLoop(b, Tail(nodes),
            Return(<<>>,
                   IF r.ok THEN acc.items \o StorageItems(b, node) ELSE acc.items,
                   Append(acc.log, q)))

\* the storages are output in the order fetched: no dedup, no sort
ProxmoxClaudeServer_getStorage(b, nodeName) ==
  IF Given(nodeName)
  THEN LET q == Req("GET", <<"nodes", nodeName, "storage">>)
           r == ProxmoxClaudeServer_proxmoxRequest(b, q)
       IN IF ~r.ok THEN Throw(r.err, <<q>>)
          ELSE Return(<<"Storage Pools">>, StorageItems(b, nodeName), <<q>>)
  ELSE LET q == Req("GET", <<"nodes">>)
           r == ProxmoxClaudeServer_proxmoxRequest(b, q)
           c == ProxmoxClaudeServer_getStorageLoop(b, b.nodes, Return(<<>>, <<>>, <<q>>))
       IN IF ~r.ok THEN Throw(r.err, <<q>>)
          ELSE Return(<<"Storage Pools">>, c.items, c.log)

\* this.allowElevated is not read
ProxmoxClaudeServer_getClusterStatus(b) ==
  LET q == Req("GET", <<"nodes">>)
      r == ProxmoxClaudeServer_proxmoxRequest(b, q)
      qc == Req("GET", <<"cluster", "status">>)
      rc == ProxmoxClaudeServer_proxmoxRequest(b, qc)
  IN IF ~r.ok THEN Throw(r.err, <<q>>)
     ELSE IF ~rc.ok THEN Throw(rc.err, <<q, qc>>)
     ELSE Return(ClusterHealth(b, "Degraded")
                   \o <<"Resource Usage", "CPU: ", "Memory: ", "Node Details">>,
                 NodeItems(b), <<q, qc>>)

\* a route handler: try { res.json({ success: true, data }) }
\* catch { res.status(500).json({ success: false, error: message }) }
ProxmoxClaudeServer_respond(h, c) ==
  IF c.thrown
  THEN Caught([h |-> h, c |-> c],
              Outcome(500, JsonUndefined, NoResult, ErrorObject(0, "", c.text), c.log, h))
  ELSE Outcome(200, JsonUndefined,
               [present |-> TRUE, kind |-> "rest", tools |-> <<>>, text |-> c.text,
                items |-> c.items],
               NoError, c.log, h)

\* GET /api/nodes/:node
ProxmoxClaudeServer_routeNodeStatus(b, node) ==
  ProxmoxClaudeServer_respond("getNodeStatus", ProxmoxClaudeServer_getNodeStatus(b, node))

\* POST /api/vms/:node/:vmid/exec; destructuring an absent body throws inside the try
ProxmoxClaudeServer_routeExec(allow, b, node, vmid, body) ==
  IF ~body.present
  THEN ProxmoxClaudeServer_respond("none",
         Throw(<<"Cannot destructure property 'command' of 'req.body' as it is undefined.">>,
               <<>>))
  ELSE ProxmoxClaudeServer_respond("executeVMCommand",
         ProxmoxClaudeServer_executeVMCommand(allow, b, node, vmid, body.command, body.type))

\* GET /api/vms?node=&type= (type = 'all' when the query has none)
ProxmoxClaudeServer_routeVMs(b, node, type) ==
  ProxmoxClaudeServer_respond("getVMs", ProxmoxClaudeServer_getVMs(b, node, Default(type, "all")))

\* GET /api/storage?node=
ProxmoxClaudeServer_routeStorage(b, node) ==
  ProxmoxClaudeServer_respond("getStorage", ProxmoxClaudeServer_getStorage(b, node))

\* GET /api/cluster
ProxmoxClaudeServer_routeCluster(b) ==
  ProxmoxClaudeServer_respond("getClusterStatus", ProxmoxClaudeServer_getClusterStatus(b))

(***************************************************************************)
(* The state machine.  env is the environment the three servers are        *)
(* constructed from, backend the remote cluster.  server, request,         *)
(* response, apiLog and handler describe the exchange in progress: the     *)
(* request a handler has answered, its response, the requests the handler  *)
(* sent to the remote API and the tool handler it entered.                 *)
(***************************************************************************)
\* the data of the remote cluster
ClusterData ==
  [nodes |-> <<"pve", "lvm-pve">>,
   online |-> {"pve", "lvm-pve"},
   guests |-> (<<"pve", "qemu">> :> <<103, 100>>) @@ (<<"pve", "lxc">> :> <<101, 100>>)
                @@ (<<"lvm-pve", "qemu">> :> <<100>>) @@ (<<"lvm-pve", "lxc">> :> <<>>),
   storages |-> ("pve" :> <<"local-lvm", "local">>) @@ ("lvm-pve" :> <<"local">>)]

Backend(fail, kind, data) ==
  [fail |-> fail, failKind |-> kind, nodes |-> data.nodes, online |-> data.online,
   guests |-> data.guests, storages |-> data.storages]

\* an endpoint that fails on every node at once: the guests of one kind, the
\* guests of both kinds, the storages
Outages ==
  {{<<n, x>> : n \in NodeNames} : x \in {"qemu", "lxc", "storage"}}
    \cup {{<<n, x>> : n \in NodeNames, x \in Kinds}}

Backends ==
  {Backend({}, "status", ClusterData)}
    \cup {Backend(f, k, ClusterData) :
            f \in {S \in SUBSET FailPoints : Cardinality(S) \in 1..MaxFail} \cup Outages,
            k \in FailKinds}

Request(id, method, params) == [id |-> id, method |-> method, params |-> params]

NoRequest == Request(JsonUndefined, Undefined, NoParams)
NoResponse == Outcome(0, JsonUndefined, NoResult, NoError, <<>>, "none")

\* inputs: argument values a client sends
NodeValues == NodeNames \cup {Undefined}
VmidValues == {"100", Undefined}
CommandValues == {"uptime", Undefined}

ToolNameValues ==
  ToolNames(ProxmoxServer_listTools) \cup {"nonexistent_tool", Undefined}

ArgsValues(name) ==
  {NoArgs} \cup
  CASE name = "proxmox_get_node_status" \/ name = "proxmox_get_storage" ->
         {Args(n, Undefined, Undefined, Undefined) : n \in NodeValues}
    [] name = "proxmox_get_vms" ->
         {Args(n, Undefined, Undefined, t) :
            n \in NodeValues, t \in {"qemu", "lxc", "all", "kvm", Undefined}}
    [] name = "proxmox_get_vm_status" ->
         {Args(n, v, Undefined, t) :
            n \in NodeValues, v \in VmidValues, t \in {"qemu", "lxc", Undefined}}
    [] name = "proxmox_execute_vm_command" ->
         {Args(n, v, c, t) :
            n \in NodeValues, v \in VmidValues, c \in CommandValues,
            t \in {"qemu", "lxc", "kvm", Undefined}}
    [] OTHER -> {Args(Undefined, Undefined, Undefined, Undefined)}

ToolCalls ==
  UNION {{Params(name, args) : args \in ArgsValues(name)} : name \in ToolNameValues}

MethodValues == {"initialize", "tools/list", "tools/call", "resources/list", Undefined}

HttpRequests ==
  {Request(id, m, NoParams) : id \in Ids, m \in MethodValues}
    \cup {Request(id, "tools/call", p) : id \in Ids, p \in ToolCalls}

Idle == server = "none"

\* the requests a server has in flight at the same time, seen one await at a
\* time: two of them
Calls == {"first", "second"}

\* the locals of one invocation: where it waits (pc), the request, the nodes
\* its for-loop has still to visit, its accumulators (allVMs in
\* ProxmoxMCPServer.getVMs; vms and storages in ProxmoxServer), the fetch it
\* awaits, the requests it has sent and how many of them have settled, the
\* error it has thrown, and how often its response was written
NoCall ==
  [pc |-> "idle", srv |-> "none", req |-> NoRequest, nodes |-> <<>>, allVMs |-> <<>>,
   vms |-> <<>>, storages |-> <<>>, pending |-> {}, log |-> <<>>, settled |-> 0,
   thrown |-> FALSE, err |-> <<>>, written |-> 0]

Credentials == {"PROXMOX_HOST", "PROXMOX_TOKEN_NAME", "PROXMOX_TOKEN_VALUE"}

\* the credentials a server is left without after its constructor has read
\* the environment; a: the variables absent from it. The stdio server falls
\* back on a default host and a default token name
ProxmoxServer_constructor(a) == a \ {"PROXMOX_HOST", "PROXMOX_TOKEN_NAME"}

ProxmoxMCPServer_constructor(a) == a

ProxmoxClaudeServer_constructor(a) == a

Unset(srv, a) ==
  CASE srv = "stdio" -> ProxmoxServer_constructor(a)
    [] srv = "http" -> ProxmoxMCPServer_constructor(a)
    [] OTHER -> ProxmoxClaudeServer_constructor(a)

\* whether the start of a server gets as far as accepting requests
ProxmoxServer_run(a) == TRUE

ProxmoxMCPServer_start(a) == TRUE

ProxmoxClaudeServer_start(a) == ProxmoxClaudeServer_constructor(a) = {}

Starts(srv, a) ==
  CASE srv = "stdio" -> ProxmoxServer_run(a)
    [] srv = "http" -> ProxmoxMCPServer_start(a)
    [] OTHER -> ProxmoxClaudeServer_start(a)

\* the remote API as the requests of a server meet it: without a host the
\* URL names no machine and every fetch fails, without a token every request
\* is answered with a non-2xx status
Reached(srv) ==
  LET u == Unset(srv, absent)
  IN IF u = {} THEN backend
     ELSE Backend(FailPoints, IF "PROXMOX_HOST" \in u THEN "unreachable" ELSE "status",
                  backend)

\* the servers of a deployment whose environment holds every credential
Init ==
  /\ env \in EnvValues
  /\ absent = {}
  /\ listening = [s \in Servers |-> Starts(s, absent)]
  /\ allowElevated = [s \in Servers |-> ElevatedFromEnv(env)]
  /\ backend \in Backends
  /\ server = "none"
  /\ request = NoRequest
  /\ response = NoResponse
  /\ apiLog = <<>>
  /\ handler = "none"
  /\ raised = FALSE
  /\ calls = [c \in Calls |-> NoCall]

\* a handler has run: its response, the requests it sent, the handler entered
Answer(srv, req, out) ==
  /\ server' = srv
  /\ request' = req
  /\ response' = out
  /\ apiLog' = out.log
  /\ handler' = out.handler
  /\ raised' = out.raised
  /\ UNCHANGED <<env, absent, listening, allowElevated, backend, calls>>

\* stdio: the ListToolsRequestSchema handler
StdioListTools ==
  /\ Idle
  /\ listening["stdio"]
  /\ Answer("stdio", Request(JsonUndefined, "tools/list", NoParams),
            Outcome(0, JsonUndefined, ToolsResult(ProxmoxServer_listTools), NoError,
                    <<>>, "none"))

\* stdio: the CallToolRequestSchema handler
StdioCallTool ==
  /\ Idle
  /\ listening["stdio"]
  /\ \E p \in ToolCalls :
       Answer("stdio", Request(JsonUndefined, "tools/call", p),
              ProxmoxServer_callTool(allowElevated["stdio"], Reached("stdio"), p.name,
                                     p.arguments))

\* http: the POST / handler
HttpPost ==
  /\ Idle
  /\ listening["http"]
  /\ \E req \in HttpRequests :
       Answer("http", req, ProxmoxMCPServer_post(Reached("http"), req))

\* rest: GET /api/nodes/:node
RestNodeStatus ==
  /\ Idle
  /\ listening["rest"]
  /\ \E node \in NodeNames \cup {"ghost"} :
       Answer("rest",
              Request(JsonUndefined, "GET /api/nodes/:node",
                      Params(Undefined, Args(node, Undefined, Undefined, Undefined))),
              ProxmoxClaudeServer_routeNodeStatus(Reached("rest"), node))

\* rest: POST /api/vms/:node/:vmid/exec
RestExec ==
  /\ Idle
  /\ listening["rest"]
  /\ \E node \in NodeNames, vmid \in {"100"},
        body \in {NoArgs} \cup {Args(Undefined, Undefined, c, t) :
                                  c \in CommandValues, t \in {"qemu", "lxc", "kvm", Undefined}} :
       Answer("rest",
              Request(JsonUndefined, "POST /api/vms/:node/:vmid/exec",
                      Params(Undefined, [body EXCEPT !.node = node, !.vmid = vmid])),
              ProxmoxClaudeServer_routeExec(allowElevated["rest"], Reached("rest"), node, vmid, body))

\* rest: GET /api/vms
RestVMs ==
  /\ Idle
  /\ listening["rest"]
  /\ \E node \in NodeValues, type \in {"qemu", "lxc", "all", Undefined} :
       Answer("rest",
              Request(JsonUndefined, "GET /api/vms",
                      Params(Undefined, Args(node, Undefined, Undefined, type))),
              ProxmoxClaudeServer_routeVMs(Reached("rest"), node, type))

\* rest: GET /api/storage
RestStorage ==
  /\ Idle
  /\ listening["rest"]
  /\ \E node \in NodeValues :
       Answer("rest",
              Request(JsonUndefined, "GET /api/storage",
                      Params(Undefined, Args(node, Undefined, Undefined, Undefined))),
              ProxmoxClaudeServer_routeStorage(Reached("rest"), node))

\* rest: GET /api/cluster
RestCluster ==
  /\ Idle
  /\ listening["rest"]
  /\ Answer("rest", Request(JsonUndefined, "GET /api/cluster", NoParams),
            ProxmoxClaudeServer_routeCluster(Reached("rest")))

\* the response has been written and the exchange is over
EndExchange ==
  /\ ~Idle
  /\ server' = "none"
  /\ request' = NoRequest
  /\ response' = NoResponse
  /\ apiLog' = <<>>
  /\ handler' = "none"
  /\ raised' = FALSE
  /\ UNCHANGED <<env, absent, listening, allowElevated, backend, calls>>

Next ==
  \/ StdioListTools
  \/ StdioCallTool
  \/ HttpPost
  \/ RestNodeStatus
  \/ RestExec
  \/ RestVMs
  \/ RestStorage
  \/ RestCluster
  \/ EndExchange

Spec == Init /\ [][Next]_vars

\* the servers started in any environment, some credentials absent or none,
\* in front of a healthy remote API
InitStartup ==
  /\ env \in EnvValues
  /\ absent \in SUBSET Credentials
  /\ listening = [s \in Servers |-> Starts(s, absent)]
  /\ allowElevated = [s \in Servers |-> ElevatedFromEnv(env)]
  /\ backend = Backend({}, "status", ClusterData)
  /\ server = "none"
  /\ request = NoRequest
  /\ response = NoResponse
  /\ apiLog = <<>>
  /\ handler = "none"
  /\ raised = FALSE
  /\ calls = [c \in Calls |-> NoCall]

SpecStartup == InitStartup /\ [][Next]_vars

(***************************************************************************)
(* The listings one await at a time.  An async handler runs until its next *)
(* `await this.proxmoxRequest(...)`, and resumes when that fetch settles;  *)
(* between the two the event loop runs the other requests in flight.       *)
(***************************************************************************)
\* `await this.proxmoxRequest(endpoint)`: the request is sent and the
\* invocation waits at pc
Fetch(call, pc, q) == [call EXCEPT !.pc = pc, !.pending = {q}, !.log = Append(@, q)]

\* the handler returns, or it throws err into the catch of the dispatch
Returns(call) == [call EXCEPT !.pc = "resolved", !.nodes = <<>>]
Throws(call, err) ==
  [call EXCEPT !.pc = "resolved", !.nodes = <<>>, !.thrown = TRUE, !.err = err]

NodeFilterOf(call) == Opt(call.req.params.arguments, "node")
TypeFilterOf(call) == Default(Opt(call.req.params.arguments, "type"), "all")

\* ProxmoxMCPServer.getVMs at the head of its for-loop, ns the nodes left
RECURSIVE ProxmoxMCPServer_getVMs_for(_, _)
ProxmoxMCPServer_getVMs_for(call, ns) ==
  IF ns = <<>> THEN Returns(call)
  ELSE IF Given(NodeFilterOf(call)) /\ Head(ns) # NodeFilterOf(call)
  THEN ProxmoxMCPServer_getVMs_for(call, Tail(ns))
  ELSE IF TypeFilterOf(call) \in {"all", "qemu"}
  THEN Fetch([call EXCEPT !.nodes = ns], "qemu", Req("GET", <<"nodes", Head(ns), "qemu">>))
  ELSE IF TypeFilterOf(call) \in {"all", "lxc"}
  THEN Fetch([call EXCEPT !.nodes = ns], "lxc", Req("GET", <<"nodes", Head(ns), "lxc">>))
  ELSE ProxmoxMCPServer_getVMs_for(call, Tail(ns))

\* ProxmoxMCPServer.getVMs resumes: r is how the awaited fetch settled; a
\* failure inside the loop is caught and the loop goes on to the next node
ProxmoxMCPServer_getVMs_resume(call, b, r) ==
  CASE call.pc = "nodes" ->
         IF ~r.ok THEN Throws(call, r.err) ELSE ProxmoxMCPServer_getVMs_for(call, b.nodes)
    [] call.pc = "qemu" ->
         IF ~r.ok THEN ProxmoxMCPServer_getVMs_for(call, Tail(call.nodes))
         ELSE IF TypeFilterOf(call) \in {"all", "lxc"}
         THEN Fetch([call EXCEPT !.allVMs = @ \o GuestItems(b, Head(call.nodes), "qemu")],
                    "lxc", Req("GET", <<"nodes", Head(call.nodes), "lxc">>))
         ELSE ProxmoxMCPServer_getVMs_for(
                [call EXCEPT !.allVMs = @ \o GuestItems(b, Head(call.nodes), "qemu")],
                Tail(call.nodes))
    [] OTHER ->
         IF ~r.ok THEN ProxmoxMCPServer_getVMs_for(call, Tail(call.nodes))
         ELSE ProxmoxMCPServer_getVMs_for(
                [call EXCEPT !.allVMs = @ \o GuestItems(b, Head(call.nodes), "lxc")],
                Tail(call.nodes))

\* ProxmoxServer.getVMs at the head of its for-loop (no node filter)
ProxmoxServer_getVMs_for(call, ns) ==
  IF ns = <<>> THEN Returns(call)
  ELSE IF TypeFilterOf(call) \in {"all", "qemu"}
  THEN Fetch([call EXCEPT !.nodes = ns], "qemu", Req("GET", <<"nodes", Head(ns), "qemu">>))
  ELSE IF TypeFilterOf(call) \in {"all", "lxc"}
  THEN Fetch([call EXCEPT !.nodes = ns], "lxc", Req("GET", <<"nodes", Head(ns), "lxc">>))
  ELSE Returns(call)

\* ProxmoxServer.getVMs resumes: any failure throws out of the handler; with
\* a node filter both endpoints of the node are fetched and the type filter
\* is applied to what they returned
ProxmoxServer_getVMs_resume(call, b, r) ==
  IF ~r.ok THEN Throws(call, r.err)
  ELSE IF call.pc = "nodes" THEN ProxmoxServer_getVMs_for(call, b.nodes)
  ELSE IF Given(NodeFilterOf(call))
  THEN IF call.pc = "qemu"
       THEN Fetch(call, "lxc", Req("GET", <<"nodes", Head(call.nodes), "lxc">>))
       ELSE Returns([call EXCEPT !.vms =
                       (IF TypeFilterOf(call) \in {"all", "qemu"}
                        THEN GuestItems(b, Head(call.nodes), "qemu") ELSE <<>>)
                       \o (IF TypeFilterOf(call) \in {"all", "lxc"}
                           THEN GuestItems(b, Head(call.nodes), "lxc") ELSE <<>>)])
  ELSE IF call.pc = "qemu"
  THEN IF TypeFilterOf(call) \in {"all", "lxc"}
       THEN Fetch([call EXCEPT !.vms = @ \o GuestItems(b, Head(call.nodes), "qemu")],
                  "lxc", Req("GET", <<"nodes", Head(call.nodes), "lxc">>))
       ELSE ProxmoxServer_getVMs_for(
              [call EXCEPT !.vms = @ \o GuestItems(b, Head(call.nodes), "qemu")],
              Tail(call.nodes))
  ELSE ProxmoxServer_getVMs_for(
         [call EXCEPT !.vms = @ \o GuestItems(b, Head(call.nodes), "lxc")],
         Tail(call.nodes))

\* ProxmoxServer.getStorage at the head of its for-loop
ProxmoxServer_getStorage_for(call, ns) ==
  IF ns = <<>> THEN Returns(call)
  ELSE Fetch([call EXCEPT !.nodes = ns], "storage",
             Req("GET", <<"nodes", Head(ns), "storage">>))

ProxmoxServer_getStorage_resume(call, b, r) ==
  IF ~r.ok THEN Throws(call, r.err)
  ELSE IF call.pc = "nodes" THEN ProxmoxServer_getStorage_for(call, b.nodes)
  ELSE ProxmoxServer_getStorage_for(
         [call EXCEPT !.storages = @ \o StorageItems(b, Head(call.nodes))],
         Tail(call.nodes))

\* a request enters its handler, which runs up to its first await
Enter(srv, req, b) ==
  LET call == [NoCall EXCEPT !.srv = srv, !.req = req]
      node == NodeFilterOf(call)
  IN IF req.method # "tools/call" THEN Returns(call)
     ELSE IF srv = "http" \/ ~Given(node)
     THEN Fetch(call, "nodes", Req("GET", <<"nodes">>))
     ELSE IF req.params.name = "proxmox_get_vms"
     THEN Fetch([call EXCEPT !.nodes = <<node>>], "qemu", Req("GET", <<"nodes", node, "qemu">>))
     ELSE Fetch([call EXCEPT !.nodes = <<node>>], "storage",
                Req("GET", <<"nodes", node, "storage">>))

\* the awaited fetch settles and the handler runs up to its next await or
\* to its end
Resume(call, b, q) ==
  IF call.srv = "http"
  THEN ProxmoxMCPServer_getVMs_resume(call, b, ProxmoxMCPServer_proxmoxRequest(b, q))
  ELSE IF call.req.params.name = "proxmox_get_vms"
  THEN ProxmoxServer_getVMs_resume(call, b, ProxmoxServer_proxmoxRequest(b, q))
  ELSE ProxmoxServer_getStorage_resume(call, b, ProxmoxServer_proxmoxRequest(b, q))

\* the response of a call whose handler has completed: the envelope the
\* dispatch builds from what the handler returned or threw
ProxmoxMCPServer_envelope(call, b) ==
  IF call.req.method # "tools/call" THEN ProxmoxMCPServer_post(b, call.req)
  ELSE IF call.thrown
  THEN [Outcome(200, call.req.id, NoResult,
                ErrorObject(InternalError, "Tool execution failed", call.err), call.log,
                "getVMs")
          EXCEPT !.raised = TRUE]
  ELSE Outcome(200, call.req.id,
               ContentResult(Return(<<"Virtual Machines">>, SortByVmid(call.allVMs),
                                    call.log)),
               NoError, call.log, "getVMs")

ProxmoxServer_envelope(call) ==
  LET vms == call.req.params.name = "proxmox_get_vms"
      c == IF call.thrown THEN Return(<<"Error: ">> \o call.err, <<>>, call.log)
           ELSE IF vms THEN Return(VMsText(call.vms), SortByVmid(call.vms), call.log)
           ELSE Return(StorageText(call.storages),
                       SortByStorage(UniqueStorages(call.storages, {}, <<>>)), call.log)
  IN [Outcome(0, JsonUndefined, ContentResult(c), NoError, call.log,
              IF vms THEN "getVMs" ELSE "getStorage")
        EXCEPT !.raised = call.thrown]

Envelope(call, b) ==
  IF call.srv = "http" THEN ProxmoxMCPServer_envelope(call, b) ELSE ProxmoxServer_envelope(call)

\* the listing requests delivered to a server
ListingRequests(srv) ==
  IF srv = "http"
  THEN {Request(JsonNum(7), "tools/list", NoParams)}
         \cup {Request(JsonNum(7), "tools/call",
                       Params("proxmox_get_vms", Args(n, Undefined, Undefined, t))) :
                 n \in {"pve", Undefined}, t \in {"qemu", "lxc", Undefined}}
  ELSE {Request(JsonUndefined, "tools/call",
                Params("proxmox_get_vms", Args(n, Undefined, Undefined, t))) :
          n \in {"pve", Undefined}, t \in {"qemu", "lxc", Undefined}}
         \cup {Request(JsonUndefined, "tools/call",
                       Params("proxmox_get_storage", Args(n, Undefined, Undefined, Undefined))) :
                 n \in {"pve", Undefined}}

\* variant: the accumulators are fields of the server, one for all calls
Store_shared(cs, c, call) ==
  [d \in Calls |->
     IF d = c THEN call
     ELSE IF cs[d].pc = "idle" THEN cs[d]
     ELSE [cs[d] EXCEPT !.allVMs = call.allVMs, !.vms = call.vms,
                        !.storages = call.storages]]

\* each call's locals are its own
Store(cs, c, call) == [cs EXCEPT ![c] = call]

\* a request is delivered while the other may be anywhere in its handler
Deliver(c) ==
  /\ calls[c].pc = "idle"
  /\ \E srv \in {"http", "stdio"} :
       /\ listening[srv]
       /\ \E req \in ListingRequests(srv) :
            calls' = Store(calls, c, Enter(srv, req, Reached(srv)))
  /\ UNCHANGED <<env, absent, listening, allowElevated, backend, server, request, response,
                 apiLog, handler, raised>>

\* the remote API answers the fetch a call awaits, or the fetch fails
Settle(c) ==
  /\ \E q \in calls[c].pending :
       calls' = Store(calls, c,
                      Resume([calls[c] EXCEPT !.pending = {}, !.settled = @ + 1],
                             Reached(calls[c].srv), q))
  /\ UNCHANGED <<env, absent, listening, allowElevated, backend, server, request, response,
                 apiLog, handler, raised>>

\* variant: the response is written without awaiting the handler
Respond_early(c) ==
  /\ calls[c].pc \notin {"idle", "done"}
  /\ calls' = [calls EXCEPT ![c] = [calls[c] EXCEPT !.pc = "done", !.written = @ + 1]]
  /\ UNCHANGED <<env, absent, listening, allowElevated, backend, server, request, response,
                 apiLog, handler, raised>>

\* res.json(response) / the SDK sends the handler's result
Respond(c) ==
  /\ calls[c].pc = "resolved"
  /\ calls' = Store(calls, c, [calls[c] EXCEPT !.pc = "done", !.written = @ + 1])
  /\ UNCHANGED <<env, absent, listening, allowElevated, backend, server, request, response,
                 apiLog, handler, raised>>

\* the remote APIs of the listings: healthy, one endpoint failing, or an
\* endpoint failing on every node
ListingBackends ==
  {Backend(f, "status", ClusterData) :
     f \in {{}} \cup Outages
             \cup {{p} : p \in {<<"nodes">>}
                            \cup {<<n, x>> : n \in NodeNames, x \in {"qemu", "lxc", "storage"}}}}

InitListing ==
  /\ env \in EnvValues
  /\ absent = {}
  /\ listening = [s \in Servers |-> Starts(s, absent)]
  /\ allowElevated = [s \in Servers |-> ElevatedFromEnv(env)]
  /\ backend \in ListingBackends
  /\ server = "none"
  /\ request = NoRequest
  /\ response = NoResponse
  /\ apiLog = <<>>
  /\ handler = "none"
  /\ raised = FALSE
  /\ calls = [c \in Calls |-> NoCall]

NextListing == \E c \in Calls : Deliver(c) \/ Settle(c) \/ Respond(c)

\* the event loop runs every continuation that is ready, and every request
\* to the remote API returns or fails in the end
SpecListing ==
  /\ InitListing
  /\ [][NextListing]_vars
  /\ \A c \in Calls : WF_vars(Settle(c)) /\ WF_vars(Respond(c))

(***************************************************************************)
(* Properties.                                                             *)
(***************************************************************************)
Success(r) == r.result.present /\ ~r.error.present
Failure(r) == r.error.present

Contains(text, token) == \E i \in 1..Len(text) : text[i] = token

\* the exchange in progress is a tools/call that carries params
ToolCall(srv) == server = srv /\ request.method = "tools/call" /\ request.params.present

CallName == request.params.name
CallArgs == request.params.arguments

GatedTools == {"proxmox_get_node_status", "proxmox_execute_vm_command"}

\* the values of the arguments the call gives
GivenArguments ==
  IF ~CallArgs.present THEN {}
  ELSE {CallArgs[f] : f \in {"node", "vmid", "command", "type"}} \ {Undefined}

\* the text every elevation notice carries
ElevationExplanation == "set PROXMOX_ALLOW_ELEVATED=true"

\* a gated tool is called while the server's elevation flag is false
GatedCall(srv) == ToolCall(srv) /\ CallName \in GatedTools /\ ~allowElevated[srv]

C2_GatedCallSendsNothing ==
  \A srv \in {"stdio", "http"} : GatedCall(srv) => apiLog = <<>>

\* the node-status handler was entered for a node that exists and returned
\* without a request
C2_Witness ==
  /\ GatedCall("stdio")
  /\ handler = "getNodeStatus"
  /\ CallArgs.node = "pve"
  /\ apiLog = <<>>

RestRoute(route) == server = "rest" /\ request.method = route

\* C3 as stated: while the REST server's elevation flag is false, neither
\* GET /api/nodes/:node nor POST /api/vms/:node/:vmid/exec sends a request
\* to the remote API or returns remote data.
C3_RestElevatedRoutesGated ==
  (/\ ~allowElevated["rest"]
   /\ RestRoute("GET /api/nodes/:node") \/ RestRoute("POST /api/vms/:node/:vmid/exec"))
    => /\ apiLog = <<>>
       /\ ~Contains(response.result.text, "Node: ")

\* the exchange in progress is a tools/list
ListCall(srv) == server = srv /\ request.method = "tools/list"

\* the seven tools of the declared catalogue
Catalogue ==
  {"proxmox_get_nodes", "proxmox_get_node_status", "proxmox_get_vms",
   "proxmox_get_vm_status", "proxmox_execute_vm_command", "proxmox_get_storage",
   "proxmox_get_cluster_status"}

ListedNames(srv) ==
  IF srv = "stdio" THEN ToolNames(ProxmoxServer_listTools)
  ELSE ToolNames(ProxmoxMCPServer_handleToolsList(request).result.tools)

\* the response rejects the tool name as unknown
RejectedAsUnknown ==
  Contains(IF Failure(response) THEN response.error.data ELSE response.result.text,
           "Unknown tool: ")

\* C5: within each server a tool name is routed to a handler by tools/call
\* (not rejected as Unknown tool) if and only if tools/list reports it.
C5_ListAndCallAgree ==
  \A srv \in {"stdio", "http"} :
    ToolCall(srv) =>
      /\ RejectedAsUnknown <=> CallName \notin ListedNames(srv)
      /\ CallArgs.present => (handler # "none" <=> CallName \in ListedNames(srv))

\* the http server rejects a tool that only the stdio server lists
C5_Witness ==
  /\ ToolCall("http")
  /\ CallName = "proxmox_get_storage"
  /\ CallName \notin ListedNames("http")
  /\ RejectedAsUnknown

C8_UnknownMethod ==
  /\ (server = "http" /\ request.method \notin {"initialize", "tools/list", "tools/call"}) =>
       /\ Failure(response) /\ ~response.result.present
       /\ response.error.code = MethodNotFound
       /\ handler = "none" /\ apiLog = <<>>
  /\ (server = "http" /\ request.method = "tools/call" /\ Failure(response)) =>
       /\ response.error.code = InternalError
       /\ response.error.code # MethodNotFound

C8_Witness ==
  /\ server = "http"
  /\ request.method = "resources/list"
  /\ response.error.code = MethodNotFound

\* C9 as stated: on every path of the http dispatcher the id of the request
\* (0, empty string, null or omitted included) is the id of the response.
C9_IdEchoed == server = "http" => response.id = request.id

\* C10: every response of the http dispatcher carries exactly one of the
\* fields result and error.
C10_ResultXorError ==
  server = "http" => (response.result.present <=> ~response.error.present)

\* the 500 Internal error path
C10_Witness ==
  /\ server = "http"
  /\ response.status = 500
  /\ response.error.present /\ ~response.result.present

(***************************************************************************)
(* Cluster-wide listings.                                                  *)
(***************************************************************************)
\* the entries of a listing, as a set
Entries(items) == {items[i] : i \in 1..Len(items)}

\* the guest kinds a listing of the given type asks every node for
WantedKinds(type) == {k \in Kinds : Default(type, "all") \in {"all", k}}

\* the remote endpoint x of node n answers
Answers(n, x) == <<n, x>> \notin backend.fail

\* the exchange in progress is a VM listing (a storage listing) over all
\* nodes, and the node enumeration /nodes has answered
VMListing(srv) ==
  /\ server = srv
  /\ IF srv = "rest" THEN request.method = "GET /api/vms"
     ELSE ToolCall(srv) /\ CallName = "proxmox_get_vms"
  /\ srv = "stdio" => CallArgs.present
  /\ ~Given(Opt(CallArgs, "node"))
  /\ <<"nodes">> \notin backend.fail

StorageListing(srv) ==
  /\ server = srv
  /\ IF srv = "rest" THEN request.method = "GET /api/storage"
     ELSE ToolCall(srv) /\ CallName = "proxmox_get_storage" /\ CallArgs.present
  /\ ~Given(Opt(CallArgs, "node"))
  /\ <<"nodes">> \notin backend.fail

ListingType == Opt(CallArgs, "type")

\* C11 as stated: in a cluster-wide listing of the stdio server
\* (proxmox_get_vms or proxmox_get_storage without node filter) in which a
\* per-node fetch fails, no error results and the listing returns the
\* entries of every node that answered.
C11_NodeFailureIsolated ==
  /\ (/\ VMListing("stdio")
      /\ \E n \in NodeNames, k \in WantedKinds(ListingType) : ~Answers(n, k))
       => /\ ~raised
          /\ \A n \in NodeNames :
               (\A k \in WantedKinds(ListingType) : Answers(n, k)) =>
                 \A k \in WantedKinds(ListingType) :
                   Entries(GuestItems(backend, n, k)) \subseteq Entries(response.result.items)
  /\ (StorageListing("stdio") /\ \E n \in NodeNames : ~Answers(n, "storage"))
       => /\ ~raised
          /\ \A n \in NodeNames :
               Answers(n, "storage") =>
                 Entries(StorageItems(backend, n)) \subseteq Entries(response.result.items)

\* the request for the guests of kind k of node n was sent
SentFor(n, k) == \E i \in 1..Len(apiLog) : apiLog[i] = Req("GET", <<"nodes", n, k>>)

\* the nodes /nodes enumerates
Enumerated == Entries(backend.nodes)

\* the targets of the fan-out whose fetches were all sent and answered, and
\* those with a fetch that was sent and failed
SucceededTargets ==
  {n \in Enumerated : \A k \in WantedKinds(ListingType) : SentFor(n, k) /\ Answers(n, k)}
FailedTargets ==
  {n \in Enumerated : \E k \in WantedKinds(ListingType) : SentFor(n, k) /\ ~Answers(n, k)}

OtherKind(k) == IF k = "qemu" THEN "lxc" ELSE "qemu"

\* C13 as stated: in a cluster-wide VM listing with type 'all', on each of
\* the three servers, when exactly one of the qemu fetch and the lxc fetch
\* of a node fails, the other one is still sent and its entries are in the
\* result, whichever of the two fails.
C13_KindFetchesIndependent ==
  \A srv \in Servers :
    (VMListing(srv) /\ WantedKinds(ListingType) = Kinds) =>
      \A n \in Enumerated, k \in Kinds :
        (~Answers(n, k) /\ Answers(n, OtherKind(k))) =>
          /\ SentFor(n, OtherKind(k))
          /\ Entries(GuestItems(backend, n, OtherKind(k)))
               \subseteq Entries(response.result.items)

\* every per-node fetch of the listing fails
AllVMTargetsFail ==
  /\ WantedKinds(ListingType) # {}
  /\ \A n \in Enumerated, k \in WantedKinds(ListingType) : ~Answers(n, k)
AllStorageTargetsFail == \A n \in Enumerated : ~Answers(n, "storage")

\* the response is a content-level error report
ErrorReport == Success(response) /\ Contains(response.result.text, "Error: ")

\* C14 as stated: when every node enumerated by /nodes fails its per-node
\* fetch, the VM listings of the http and the REST server and the storage
\* listing of the REST server answer with a content-level error, not with
\* an empty listing.
C14_AllTargetsFailedIsReported ==
  /\ \A srv \in {"http", "rest"} :
       (VMListing(srv) /\ AllVMTargetsFail) =>
         ErrorReport /\ response.result.items = <<>>
  /\ (StorageListing("rest") /\ AllStorageTargetsFail) =>
       ErrorReport /\ response.result.items = <<>>

\* the exchange in progress is a VM listing that returned (with or without
\* node filter)
VMsListed(srv) == server = srv /\ handler = "getVMs" /\ ~raised /\ Success(response)

\* C15: on each of the three servers the entries of a VM listing are in
\* ascending vmid order, whatever the order in which the nodes were
\* enumerated and answered: of two consecutive entries the first vmid is
\* less than or equal to the second.
C15_ListingAscending ==
  \A srv \in Servers :
    VMsListed(srv) =>
      \A i \in 1..(Len(response.result.items) - 1) :
        response.result.items[i].vmid <= response.result.items[i + 1].vmid

\* guests fetched in the order 103, 100, 101, 100, 100 and listed in ascending order
C15_Witness ==
  /\ VMsListed("http")
  /\ apiLog = <<Req("GET", <<"nodes">>),
                Req("GET", <<"nodes", "pve", "qemu">>), Req("GET", <<"nodes", "pve", "lxc">>),
                Req("GET", <<"nodes", "lvm-pve", "qemu">>),
                Req("GET", <<"nodes", "lvm-pve", "lxc">>)>>
  /\ backend.guests[<<"pve", "qemu">>] = <<103, 100>>
  /\ [i \in 1..Len(response.result.items) |-> response.result.items[i].vmid]
       = <<100, 100, 100, 101, 103>>

\* the fetch of the guests of kind k of node n contributes to the listing
\* in progress: the kind is wanted, the node passes the node filter, the
\* request was sent and answered
Contributes(n, k) ==
  /\ k \in WantedKinds(ListingType)
  /\ Given(Opt(CallArgs, "node")) => n = Opt(CallArgs, "node")
  /\ SentFor(n, k) /\ Answers(n, k)

ExecCall(srv) ==
  /\ server = srv
  /\ allowElevated[srv]
  /\ IF srv = "rest" THEN request.method = "POST /api/vms/:node/:vmid/exec"
     ELSE ToolCall(srv) /\ CallName = "proxmox_execute_vm_command"
  /\ CallArgs.present

ExecType == Default(CallArgs.type, "qemu")

\* the two endpoints of the call in progress
AgentExec ==
  Req("POST", <<"nodes", Interp(CallArgs.node), "qemu", Interp(CallArgs.vmid), "agent", "exec">>)
DirectExec ==
  Req("POST", <<"nodes", Interp(CallArgs.node), "lxc", Interp(CallArgs.vmid), "exec">>)

ExecEndpoint == IF ExecType = "qemu" THEN AgentExec ELSE DirectExec

\* C18 as stated: when an elevated command execution fails at the remote
\* API, the response of the stdio and of the REST server is a Success, not
\* an error response, and its text includes the command.
C18_ExecFailureNamesCommand ==
  \A srv \in {"stdio", "rest"} :
    (ExecCall(srv) /\ CallArgs.command # Undefined /\ Fails(backend, ExecEndpoint.path)) =>
      /\ Success(response) /\ ~raised
      /\ Contains(response.result.text, "Error: ")
      /\ Contains(response.result.text, CallArgs.command)

(***************************************************************************)
(* Cluster status and the ungated tools.                                   *)
(***************************************************************************)
\* the exchange in progress asks for the cluster status
ClusterCall(srv) ==
  /\ server = srv
  /\ IF srv = "rest" THEN request.method = "GET /api/cluster"
     ELSE ToolCall(srv) /\ CallName = "proxmox_get_cluster_status"

ClusterStatusRequest == Req("GET", <<"cluster", "status">>)

\* C19 as stated: on each of the three servers, while the elevation flag is
\* false and /nodes answers, the cluster status is not refused: the response
\* reports the cluster health and the nodes, contains no resource totals,
\* and /cluster/status is not requested.
C19_ClusterStatusDegrades ==
  \A srv \in Servers :
    (ClusterCall(srv) /\ ~allowElevated[srv] /\ <<"nodes">> \notin backend.fail) =>
      /\ Success(response) /\ ~raised
      /\ Contains(response.result.text, "Cluster Health: ")
      /\ Contains(response.result.text, "Node Details")
      /\ ~Contains(response.result.text, "Resource Usage")
      /\ \A i \in 1..Len(apiLog) : apiLog[i] # ClusterStatusRequest

\* the tools that list at a coarse level
CoarseTools ==
  {"proxmox_get_nodes", "proxmox_get_vms", "proxmox_get_vm_status", "proxmox_get_storage"}

\* C20: on the stdio server a call of proxmox_get_nodes, proxmox_get_vms,
\* proxmox_get_vm_status or proxmox_get_storage sends the same requests and
\* gets the same response as the same call, against the same backend, with
\* the elevation flag negated.
C20_CoarseListingUngated ==
  (ToolCall("stdio") /\ CallName \in CoarseTools) =>
    LET other == ProxmoxServer_callTool(~allowElevated["stdio"], backend, CallName, CallArgs)
    IN /\ apiLog = other.log
       /\ response = other

\* a VM status read without elevation: the request is sent and the status returned
C20_Witness ==
  /\ ToolCall("stdio") /\ CallName = "proxmox_get_vm_status"
  /\ ~allowElevated["stdio"]
  /\ apiLog = <<Req("GET", <<"nodes", "pve", "qemu", "100", "status", "current">>)>>
  /\ Contains(response.result.text, "VM Status")

(***************************************************************************)
(* Argument validation.                                                    *)
(***************************************************************************)
\* the fields the inputSchema of a listed tool declares as required
RequiredFields(name) ==
  UNION {ProxmoxServer_listTools[i].required :
           i \in {j \in 1..Len(ProxmoxServer_listTools) : ProxmoxServer_listTools[j].name = name}}

\* the required fields the call in progress does not give
MissingFields ==
  {f \in RequiredFields(CallName) : ~CallArgs.present \/ CallArgs[f] = Undefined}

\* the text of the response, of either kind
ResponseText == IF Failure(response) THEN response.error.data ELSE response.result.text

\* C21 as stated: a tools/call of the stdio server that lacks a field the
\* tool's inputSchema requires is rejected with a message naming a missing
\* field, before the handler runs and before any request is sent.
C21_MissingRequiredRejected ==
  (ToolCall("stdio") /\ MissingFields # {}) =>
    /\ handler = "none"
    /\ apiLog = <<>>
    /\ \E f \in MissingFields : Contains(ResponseText, f)

(***************************************************************************)
(* The two MCP transports compared.                                        *)
(***************************************************************************)
\* what the stdio server answers to the call the http server is answering
StdioAnswer ==
  IF request.method = "tools/list"
  THEN Outcome(0, JsonUndefined, ToolsResult(ProxmoxServer_listTools), NoError, <<>>, "none")
  ELSE ProxmoxServer_callTool(allowElevated["stdio"], backend, CallName, CallArgs)

\* C22 as stated: for the same tools/list or tools/call, against the same
\* backend and with the same elevation flag, the http server and the stdio
\* server answer with the same kind of envelope, the same tool names and
\* the same result.
C22_TransportsAgree ==
  (/\ server = "http"
   /\ request.method = "tools/list" \/ ToolCall("http")
   /\ allowElevated["http"] = allowElevated["stdio"]) =>
    /\ Success(response) <=> Success(StdioAnswer)
    /\ Failure(response) <=> Failure(StdioAnswer)
    /\ response.result.kind = StdioAnswer.result.kind
    /\ ToolNames(response.result.tools) = ToolNames(StdioAnswer.result.tools)
    /\ response.result.text = StdioAnswer.result.text

(***************************************************************************)
(* C23  Missing mandatory credentials (host, token name, token value) are  *)
(* fatal at startup: a server whose configuration lacks one of them never  *)
(* accepts requests, so no exchange is ever answered by a server that is   *)
(* without a credential.                                                   *)
(***************************************************************************)
C23_MissingCredentialsFatal ==
  /\ \A s \in Servers : Unset(s, absent) # {} => ~listening[s]
  /\ server \in Servers => Unset(server, absent) = {}

(***************************************************************************)
(* C24  Repeating a read-only tools/call                                   *)
(***************************************************************************)
ReadOnlyTools ==
  {"proxmox_get_nodes", "proxmox_get_vms", "proxmox_get_storage", "proxmox_get_cluster_status"}

\* the exchange in progress is a call of a read-only tool
ReadOnlyCall == (ToolCall("stdio") \/ ToolCall("http")) /\ CallName \in ReadOnlyTools

\* what the server keeps from one exchange to the next, and the remote API
Kept == <<env, absent, listening, allowElevated, backend>>

\* the response to the call in progress, delivered once more to the server
\* in the state this exchange leaves behind
RepeatedAnswer ==
  IF server = "stdio"
  THEN ProxmoxServer_callTool(allowElevated'["stdio"], Reached("stdio")', CallName, CallArgs)
  ELSE ProxmoxMCPServer_post(Reached("http")', request)

C27_FlagSetOnce ==
  /\ [](\A s \in Servers : allowElevated[s] <=> env = "true")
  /\ [][allowElevated' = allowElevated /\ env' = env]_vars

\* a gated call has been refused by a server whose variable is 'TRUE', and
\* the flag is still false
C27_Witness ==
  /\ env = "TRUE"
  /\ ToolCall("stdio") /\ CallName \in GatedTools
  /\ ~allowElevated["stdio"]
  /\ handler # "none" /\ apiLog = <<>>

(***************************************************************************)
(* C25  Every request ends with one response, written after its fetches    *)
(***************************************************************************)
Delivered(c) == calls[c].pc # "idle"
Responded(c) == calls[c].pc = "done"

\* C25: every request delivered is answered in the end, the response is
\* written exactly once, and when the response of a listing is built or
\* written no fetch of that call is outstanding: every request the call
\* sent has settled and is accounted for in the response.
C25_ResponseAfterFanOut ==
  /\ [](\A c \in Calls :
          /\ calls[c].written = (IF Responded(c) THEN 1 ELSE 0)
          /\ calls[c].pc \in {"resolved", "done"} =>
               /\ calls[c].pending = {}
               /\ calls[c].settled = Len(calls[c].log)
               /\ Envelope(calls[c], backend).log = calls[c].log)
  /\ \A c \in Calls : Delivered(c) ~> Responded(c)

\* a cluster-wide VM listing of the HTTP server has been answered after its
\* five fetches
C25_Witness ==
  \E c \in Calls :
    /\ Responded(c) /\ calls[c].srv = "http"
    /\ Len(calls[c].log) = 5 /\ calls[c].settled = 5
    /\ Success(Envelope(calls[c], backend))

(***************************************************************************)
(* C26  Requests in flight together do not share an accumulator            *)
(***************************************************************************)
\* the response the request of a call gets when it is processed alone
AloneAnswer(call) ==
  IF call.srv = "http" THEN ProxmoxMCPServer_post(backend, call.req)
  ELSE ProxmoxServer_callTool(allowElevated["stdio"], backend, call.req.params.name,
                              call.req.params.arguments)

\* C26: with two requests in flight on the HTTP and the stdio server (VM
\* listings, storage listings) and their fetches interleaved in any order,
\* the response of each call, its entries and their order included, is the
\* response its request gets when it is processed alone against the same
\* backend.
C26_CallsDoNotInterfere ==
  \A c \in Calls :
    calls[c].pc \in {"resolved", "done"} => Envelope(calls[c], backend) = AloneAnswer(calls[c])

\* two different listings are in the middle of their fan-outs at the same
\* time, each with entries accumulated
C26_Witness ==
  /\ calls["first"].srv = "http" /\ calls["first"].pc = "lxc"
  /\ calls["first"].allVMs # <<>> /\ calls["first"].settled = 2
  /\ calls["second"].srv = "stdio" /\ calls["second"].pc = "qemu"
  /\ calls["second"].vms # <<>> /\ calls["second"].settled = 3

(***************************************************************************)
(* C28  A type filter fetches and lists one kind only                      *)
(***************************************************************************)
\* the exchange in progress on srv is a VM listing with type filter k
FilteredVMListing(srv, k) ==
  /\ server = srv /\ handler = "getVMs"
  /\ CallArgs.present /\ ListingType = k

\* C28 as stated: in a VM listing with type filter 'qemu' or 'lxc', on each
\* of the three servers and with or without node filter, no request goes to
\* an endpoint of the other kind, every entry of the result is of the kind
\* asked for, and the handler fails only if /nodes or an endpoint of that
\* kind fails.
C28_TypeFilterIsolates ==
  \A srv \in Servers, k \in Kinds :
    FilteredVMListing(srv, k) =>
      /\ \A n \in NodeNames : ~SentFor(n, OtherKind(k))
      /\ \A i \in 1..Len(response.result.items) : response.result.items[i].type = k
      /\ raised => \/ <<"nodes">> \in backend.fail
                   \/ \E n \in NodeNames : <<n, k>> \in backend.fail

(***************************************************************************)
(* C29  One POST per command execution, chosen by `type === 'qemu'`        *)
(***************************************************************************)
\* C29: an elevated command execution on the stdio or the REST server sends
\* exactly one request, a POST, and never both exec endpoints: the
\* guest-agent endpoint exactly when type is 'qemu' (also when type is
\* omitted), and the lxc exec endpoint for every other value, 'kvm' included.
C29_OneExecEndpoint ==
  \A srv \in {"stdio", "rest"} :
    ExecCall(srv) =>
      /\ Len(apiLog) = 1
      /\ apiLog[1].method = "POST"
      /\ apiLog[1] \in {AgentExec, DirectExec}
      /\ apiLog[1] = AgentExec <=> CallArgs.type \in {"qemu", Undefined}
      /\ apiLog[1] = DirectExec <=> CallArgs.type \notin {"qemu", Undefined}

\* a type outside the declared enum goes to the lxc exec endpoint
C29_Witness ==
  /\ ExecCall("stdio")
  /\ CallArgs.type = "kvm" /\ CallArgs.node = "pve" /\ CallArgs.vmid = "100"
  /\ apiLog = <<DirectExec>>
  /\ Contains(response.result.text, "Command executed on LXC ")

(***************************************************************************)
(* C30  De-duplication of the storage listing                              *)
(***************************************************************************)
\* C30 as stated: a cluster-wide storage listing of the stdio server whose
\* fetches all answered lists every (storage name, node) pair that was
\* fetched, each exactly once, also for names that contain '-'.
C30_DedupByNameAndNode ==
  (StorageListing("stdio") /\ handler = "getStorage" /\ ~raised) =>
    LET listed == response.result.items
    IN /\ Entries(listed) = UNION {Entries(StorageItems(backend, n)) : n \in Enumerated}
       /\ \A i, j \in 1..Len(listed) : listed[i] = listed[j] => i = j
====
